---- MODULE Spec2Model ----
(***************************************************************************)
(* Model of src/header/internals/cell.rs: the single-assignment cell       *)
(* OptCell<T> and the type-keyed cache PtrMapCell<V>.                       *)
(*                                                                         *)
(* An Option<T> is modelled as a sequence of length 0 (None) or 1 (Some).  *)
(* A PtrMap is a record with a tag "Empty", "One" or "Many"; the HashMap   *)
(* of Many is a function from the stored TypeIds to the stored values.     *)
(* debug_assert!/debug_assert_ne! are compiled in when build = "debug" and *)
(* compiled out when build = "release".                                    *)
(*                                                                         *)
(* The header codecs of src/header/common are modelled further down, each  *)
(* with a specification of its own over the variables hdr .. other.  A      *)
(* string is a sequence of one-character strings, a raw field a sequence   *)
(* of lines.                                                               *)
(***************************************************************************)
EXTENDS Integers, Sequences, FiniteSets, TLC

\* ---------------------------------------------------------------- bounds
NumKeys == 3
NumVals == 2
MaxSets == 2
NumReaders == 2
MaxCloneWrites == 1
MaxCloneEntries == 2

TypeIds == 1..NumKeys
Vals == 1..NumVals
Readers == 1..NumReaders
Builds == {"debug", "release"}

None == <<>>
Some(v) == <<v>>
Options == {None} \cup {Some(v) : v \in Vals}

VARIABLES
    cell,       \* which cell this behaviour is the life of: "OptCell" or "PtrMapCell"
    build,      \* cfg(debug_assertions): "debug" or "release"
    opt,        \* OptCell.0: the Option<T> inside the UnsafeCell
    optInit,    \* history: the argument of OptCell::new
    optSets,    \* history: the arguments of the OptCell::set calls made so far
    map,        \* PtrMapCell.0: the PtrMap inside the UnsafeCell
    inserted,   \* history: TypeId -> the Option of the value last passed to insert for it
    dup,        \* history: some insert was called with a TypeId already inserted
    moved,      \* the PtrMapCell was consumed by into_value(self, ..)
    panicked,   \* the thread using the cells has panicked
    last,       \* the last call made and what it returned
    frozen,     \* all writes have completed; only readers run from here on
    snap,       \* history: the contents of the cell when the writes completed
    rpc,        \* per reader: "idle", "ref" (holds the shared reference), "done"
    rcall,      \* per reader: the read it performs, [op, key]
    rres,       \* per reader: the result of its read
    ins,        \* the insert that has taken the One entry out of the cell, if any
    cl          \* the clone made of the cell, if any: its PtrMap, its Option and
                \* (history) the number of inserts and sets made on it

VARIABLES
    hdr,        \* which header type this behaviour is about ("none": the cells)
    stage,      \* where the header value is: "value", "wire", "parsed", ...
    hval,       \* the typed header value
    wire,       \* the raw field: a sequence of lines
    hres,       \* what the last call on the header returned
    other       \* a second typed value, for comparisons

cellVars == <<cell, build, opt, optInit, optSets, map, inserted, dup, moved, panicked,
              last, frozen, snap, rpc, rcall, rres, ins, cl>>
hdrVars == <<hdr, stage, hval, wire, hres, other>>

vars == <<cell, build, opt, optInit, optSets, map, inserted, dup, moved, panicked,
          last, frozen, snap, rpc, rcall, rres, ins, cl,
          hdr, stage, hval, wire, hres, other>>

\* no header is in play while a behaviour follows a cell
HdrIdle ==
    /\ hdr = "none"
    /\ stage = "idle"
    /\ hval = <<>>
    /\ wire = <<>>
    /\ hres = <<>>
    /\ other = <<>>

optVars == <<opt, optInit, optSets>>
mapVars == <<map, inserted, dup, moved>>
readerVars == <<frozen, snap, rpc, rcall, rres>>
stepVars == <<ins, cl>>

\* ---------------------------------------------------------------- PtrMap
Empty == [tag |-> "Empty"]
One(id, v) == [tag |-> "One", id |-> id, v |-> v]
Many(hm) == [tag |-> "Many", hm |-> hm]

\* HashMap::with_capacity(2)
HashMapNew == <<>>

\* HashMap::insert: a later insert of the same key replaces the value
HashMapInsert(hm, k, v) == (k :> v) @@ hm

\* HashMap::get
HashMapGet(hm, k) == IF k \in DOMAIN hm THEN Some(hm[k]) ELSE None

\* HashMap::remove, the returned value
HashMapRemove(hm, k) == IF k \in DOMAIN hm THEN Some(hm[k]) ELSE None

\* the TypeIds a PtrMap stores and how many entries it holds
KeysOf(m) ==
    CASE m.tag = "Empty" -> {}
      [] m.tag = "One" -> {m.id}
      [] m.tag = "Many" -> DOMAIN m.hm

Count(m) ==
    CASE m.tag = "Empty" -> 0
      [] m.tag = "One" -> 1
      [] m.tag = "Many" -> Cardinality(DOMAIN m.hm)

\* position of the structural state in Empty -> Single -> Multi
Rank(m) ==
    CASE m.tag = "Empty" -> 0
      [] m.tag = "One" -> 1
      [] m.tag = "Many" -> 2

\* get that does not compare the TypeId of a One entry with the key
PtrMapGetAnyKey(m, key) ==
    CASE m.tag = "Empty" -> None
      [] m.tag = "One" -> Some(m.v)
      [] m.tag = "Many" -> HashMapGet(m.hm, key)

\* PtrMapCell::get
PtrMapGet(m, key) ==
    CASE m.tag = "Empty" -> None
      [] m.tag = "One" -> IF m.id = key THEN Some(m.v) ELSE None
      [] m.tag = "Many" -> HashMapGet(m.hm, key)

\* PtrMapCell::get_mut, the entry the returned reference points to
PtrMapGetMut(m, key) ==
    CASE m.tag = "Empty" -> None
      [] m.tag = "One" -> IF m.id = key THEN Some(m.v) ELSE None
      [] m.tag = "Many" -> HashMapGet(m.hm, key)

\* into_value that drops the HashMap of Many without looking the key up
PtrMapIntoValueDropsMany(m, key) ==
    CASE m.tag = "Empty" -> None
      [] m.tag = "One" -> IF m.id = key THEN Some(m.v) ELSE None
      [] m.tag = "Many" -> None

\* PtrMapCell::into_value, the returned Option<Box<V>>
PtrMapIntoValue(m, key) ==
    CASE m.tag = "Empty" -> None
      [] m.tag = "One" -> IF m.id = key THEN Some(m.v) ELSE None
      [] m.tag = "Many" -> HashMapRemove(m.hm, key)

\* insert that promotes One to Many without `hm.insert(id, one)`
PtrMapInsertDropsPrior(m, key, val, b) ==
    CASE m.tag = "Empty" -> [map |-> One(key, val), panic |-> FALSE]
      [] m.tag = "One" ->
            IF b = "debug" /\ m.id = key
            THEN [map |-> Empty, panic |-> TRUE]
            ELSE [map |-> Many(HashMapInsert(HashMapNew, key, val)), panic |-> FALSE]
      [] m.tag = "Many" ->
            [map |-> Many(HashMapInsert(m.hm, key, val)), panic |-> FALSE]

\* insert that, on Many, stores the new entry as One instead of adding it
PtrMapInsertResets(m, key, val, b) ==
    CASE m.tag = "Empty" -> [map |-> One(key, val), panic |-> FALSE]
      [] m.tag = "One" ->
            IF b = "debug" /\ m.id = key
            THEN [map |-> Empty, panic |-> TRUE]
            ELSE [map |-> Many(HashMapInsert(HashMapInsert(HashMapNew, m.id, m.v),
                                             key, val)),
                  panic |-> FALSE]
      [] m.tag = "Many" -> [map |-> One(key, val), panic |-> FALSE]

\* PtrMapCell::insert: the PtrMap the cell holds when the call ends and
\* whether it ended in a panic.  On One the map is first replaced by Empty
\* (mem::replace) and only then is debug_assert_ne!(id, key) evaluated, so
\* a failed assertion leaves the cell Empty.
PtrMapInsert(m, key, val, b) ==
    CASE m.tag = "Empty" -> [map |-> One(key, val), panic |-> FALSE]
      [] m.tag = "One" ->
            IF b = "debug" /\ m.id = key
            THEN [map |-> Empty, panic |-> TRUE]
            ELSE [map |-> Many(HashMapInsert(HashMapInsert(HashMapNew, m.id, m.v),
                                             key, val)),
                  panic |-> FALSE]
      [] m.tag = "Many" ->
            [map |-> Many(HashMapInsert(m.hm, key, val)), panic |-> FALSE]

\* one whose check is a debug assertion: nothing is reported in release
PtrMapOneDebugOnly(m, b) ==
    IF m.tag = "One" THEN [res |-> Some(m.v), panic |-> FALSE]
    ELSE [res |-> None, panic |-> b = "debug"]

\* PtrMapCell::one: the returned value, or a panic; panic! is in every build
PtrMapOne(m, b) ==
    IF m.tag = "One" THEN [res |-> Some(m.v), panic |-> FALSE]
    ELSE [res |-> None, panic |-> TRUE]

\* ---------------------------------------------------------------- OptCell
\* set that checks the assertion and never stores
OptCellSetNoStore(o, val, b) ==
    IF b = "debug" /\ o # None
    THEN [opt |-> o, panic |-> TRUE]
    ELSE [opt |-> o, panic |-> FALSE]

\* OptCell::set: debug_assert!(opt.is_none()) and then *opt = Some(val)
OptCellSet(o, val, b) ==
    IF b = "debug" /\ o # None
    THEN [opt |-> o, panic |-> TRUE]
    ELSE [opt |-> Some(val), panic |-> FALSE]

\* OptCell::get_mut: opt.as_mut().unwrap()
OptCellGetMut(o) ==
    IF o = None THEN [res |-> None, panic |-> TRUE]
    ELSE [res |-> o, panic |-> FALSE]

\* Deref for OptCell
OptCellDeref(o) == o

Call(op, key, res) == [op |-> op, key |-> key, res |-> res]

\* ---------------------------------------------------------------- Init
\* OptCell::new(val) with any val; PtrMapCell::new() or PtrMapCell::with_one.
\* A behaviour follows one cell; the variables of the other kind stay as
\* they are here.
Init ==
    /\ build \in Builds
    /\ \/ /\ cell = "OptCell"
          /\ opt \in Options
          /\ map = Empty
          /\ inserted = [k \in TypeIds |-> None]
       \/ /\ cell = "PtrMapCell"
          /\ opt = None
          /\ \/ /\ map = Empty
                /\ inserted = [k \in TypeIds |-> None]
             \/ \E k \in TypeIds, v \in Vals :
                  /\ map = One(k, v)
                  /\ inserted = [j \in TypeIds |-> IF j = k THEN Some(v) ELSE None]
    /\ optInit = opt
    /\ optSets = <<>>
    /\ dup = FALSE
    /\ moved = FALSE
    /\ panicked = FALSE
    /\ last = Call("new", 0, None)
    /\ frozen = FALSE
    /\ snap = [map |-> map, opt |-> opt]
    /\ rpc = [r \in Readers |-> "idle"]
    /\ rcall = [r \in Readers |-> Call("none", 0, None)]
    /\ rres = [r \in Readers |-> [res |-> None, panic |-> FALSE]]
    /\ ins = None
    /\ cl = None
    /\ HdrIdle

\* the single thread that owns the cell may make a call on it
Running == ~panicked /\ ~frozen
OnOpt == cell = "OptCell" /\ Running
OnMap == cell = "PtrMapCell" /\ Running /\ ~moved

\* ---------------------------------------------------------------- OptCell actions
Set(val) ==
    /\ OnOpt
    /\ Len(optSets) < MaxSets
    /\ LET r == OptCellSet(opt, val, build) IN
        /\ opt' = r.opt
        /\ panicked' = r.panic
    /\ optSets' = Append(optSets, val)
    /\ last' = Call("set", val, None)
    /\ UNCHANGED <<hdrVars, stepVars, cell, build, optInit, mapVars, readerVars>>

OptGetMut ==
    /\ OnOpt
    /\ LET r == OptCellGetMut(opt) IN
        /\ panicked' = r.panic
        /\ last' = Call("opt_get_mut", 0, r.res)
    /\ UNCHANGED <<hdrVars, stepVars, cell, build, optVars, mapVars, readerVars>>

Deref ==
    /\ OnOpt
    /\ last' = Call("deref", 0, OptCellDeref(opt))
    /\ UNCHANGED <<hdrVars, stepVars, cell, build, optVars, mapVars, panicked, readerVars>>

\* ---------------------------------------------------------------- PtrMapCell actions
Insert(key, val) ==
    /\ OnMap
    /\ LET r == PtrMapInsert(map, key, val, build) IN
        /\ map' = r.map
        /\ panicked' = r.panic
    /\ inserted' = [inserted EXCEPT ![key] = Some(val)]
    /\ dup' = (dup \/ inserted[key] # None)
    /\ last' = Call("insert", key, Some(val))
    /\ UNCHANGED <<hdrVars, stepVars, cell, build, optVars, moved, readerVars>>

Get(key) ==
    /\ OnMap
    /\ last' = Call("get", key, PtrMapGet(map, key))
    /\ UNCHANGED <<hdrVars, stepVars, cell, build, optVars, mapVars, panicked, readerVars>>

GetMut(key) ==
    /\ OnMap
    /\ last' = Call("get_mut", key, PtrMapGetMut(map, key))
    /\ UNCHANGED <<hdrVars, stepVars, cell, build, optVars, mapVars, panicked, readerVars>>

OneCall ==
    /\ OnMap
    /\ LET r == PtrMapOne(map, build) IN
        /\ panicked' = r.panic
        /\ last' = Call("one", 0, r.res)
    /\ UNCHANGED <<hdrVars, stepVars, cell, build, optVars, mapVars, readerVars>>

\* into_value(self, key): the cell is moved into the call; the entries that
\* are not returned are dropped with the map
IntoValue(key) ==
    /\ OnMap
    /\ last' = Call("into_value", key, PtrMapIntoValue(map, key))
    /\ map' = Empty
    /\ moved' = TRUE
    /\ UNCHANGED <<hdrVars, stepVars, cell, build, optVars, inserted, dup, panicked, readerVars>>

\* ---------------------------------------------------------------- readers
\* All writes have completed: from here on the cells are only read, through
\* shared references, by the readers.
Freeze ==
    /\ Running /\ ~moved
    /\ frozen' = TRUE
    /\ snap' = [map |-> map, opt |-> opt]
    /\ last' = Call("freeze", 0, None)
    /\ UNCHANGED <<hdrVars, stepVars, cell, build, optVars, mapVars, panicked, rpc, rcall, rres>>

ReadCalls ==
    IF cell = "OptCell" THEN {Call("deref", 0, None)}
    ELSE {Call("get", k, None) : k \in TypeIds} \cup {Call("one", 0, None)}

\* what a read returns on given cell contents
ReadResult(c, m, o) ==
    CASE c.op = "get" -> [res |-> PtrMapGet(m, c.key), panic |-> FALSE]
      [] c.op = "one" -> PtrMapOne(m, build)
      [] c.op = "deref" -> [res |-> OptCellDeref(o), panic |-> FALSE]

\* `let map = &*self.0.get()`: the reader takes its shared reference
ReaderBegin(r, c) ==
    /\ frozen
    /\ rpc[r] = "idle"
    /\ rpc' = [rpc EXCEPT ![r] = "ref"]
    /\ rcall' = [rcall EXCEPT ![r] = c]
    /\ UNCHANGED <<hdrVars, stepVars, cell, build, optVars, mapVars, panicked, last, frozen, snap, rres>>

\* a read that moves the contents out of the cell (mem::replace, take)
ReaderFinishTakes(r) ==
    /\ frozen
    /\ rpc[r] = "ref"
    /\ rpc' = [rpc EXCEPT ![r] = "done"]
    /\ rres' = [rres EXCEPT ![r] = ReadResult(rcall[r], map, opt)]
    /\ map' = Empty
    /\ opt' = None
    /\ UNCHANGED <<hdrVars, stepVars, cell, build, optInit, optSets, inserted, dup, moved, panicked,
                   last, frozen, snap, rcall>>

\* `match *map { .. }`: the reader reads through the reference and returns
ReaderFinish(r) ==
    /\ frozen
    /\ rpc[r] = "ref"
    /\ rpc' = [rpc EXCEPT ![r] = "done"]
    /\ rres' = [rres EXCEPT ![r] = ReadResult(rcall[r], map, opt)]
    /\ UNCHANGED <<hdrVars, stepVars, cell, build, optVars, mapVars, panicked, last, frozen, snap, rcall>>

\* ---------------------------------------------------------------- spec
Next ==
    \/ \E v \in Vals : Set(v)
    \/ OptGetMut
    \/ Deref
    \/ \E k \in TypeIds, v \in Vals : Insert(k, v)
    \/ \E k \in TypeIds : Get(k)
    \/ \E k \in TypeIds : GetMut(k)
    \/ OneCall
    \/ \E k \in TypeIds : IntoValue(k)
    \/ Freeze
    \/ \E r \in Readers, c \in ReadCalls : ReaderBegin(r, c)
    \/ \E r \in Readers : ReaderFinish(r)

Spec == Init /\ [][Next]_vars

\* ---------------------------------------------------------------- claims
\* the TypeIds for which insert has been called
Inserted == {k \in TypeIds : inserted[k] # None}

\* C1: a precondition-respecting insert (its token is not stored yet) moves
\* the structure one step: Empty becomes One holding the token; One becomes
\* Many holding exactly the prior entry and the new one; Many stays Many with
\* the new entry added and the old entries kept.
C1_InsertStepsForward ==
    [][LET k == last'.key
           v == last'.res[1]
       IN (last'.op = "insert" /\ Insert(k, v) /\ k \notin KeysOf(map)) =>
            /\ ~panicked'
            /\ map.tag = "Empty" => map' = One(k, v)
            /\ map.tag = "One" =>
                /\ map'.tag = "Many"
                /\ DOMAIN map'.hm = {map.id, k}
                /\ map'.hm[map.id] = map.v
                /\ map'.hm[k] = v
            /\ map.tag = "Many" =>
                /\ map'.tag = "Many"
                /\ DOMAIN map'.hm = DOMAIN map.hm \cup {k}
                /\ Count(map') = Count(map) + 1
                /\ map'.hm[k] = v
                /\ \A j \in DOMAIN map.hm : map'.hm[j] = map.hm[j]]_vars

C1_Witness ==
    /\ ~dup /\ ~panicked
    /\ last.op = "insert"
    /\ map.tag = "Many" /\ Count(map) = 3

\* C2: after inserts with pairwise distinct tokens, get(k) is the value
\* inserted for k for every inserted token and None for every other token,
\* in each structural state, and a get call returns that and never panics.
C2_GetReturnsInserted ==
    (cell = "PtrMapCell" /\ ~dup /\ ~moved) =>
        /\ \A k \in TypeIds : PtrMapGet(map, k) = inserted[k]
        /\ last.op = "get" => (last.res = inserted[last.key] /\ ~panicked)

C2_Witness ==
    /\ ~dup /\ map.tag = "Many" /\ Cardinality(Inserted) = 3
    /\ last.op = "get" /\ last.res # None

C4_TagAgrees ==
    (cell = "PtrMapCell" /\ ~moved) =>
        /\ map.tag = "Empty" => KeysOf(map) = {}
        /\ map.tag = "One" => Cardinality(KeysOf(map)) = 1
        /\ map.tag = "Many" => Cardinality(KeysOf(map)) >= 2

\* C4 amended: Empty holds no entry, One holds exactly one, Many holds at
\* least one, and two or more unless an insert repeated a token in a release
\* build; every stored token was inserted.
C4_TagAgreesUnlessDuplicate ==
    (cell = "PtrMapCell" /\ ~moved) =>
        /\ map.tag = "Empty" => KeysOf(map) = {}
        /\ map.tag = "One" => Cardinality(KeysOf(map)) = 1
        /\ map.tag = "Many" => Cardinality(KeysOf(map)) >= 1
        /\ (map.tag = "Many" /\ ~(dup /\ build = "release")) =>
                Cardinality(KeysOf(map)) >= 2
        /\ KeysOf(map) \subseteq Inserted

C4_Witness ==
    /\ build = "release" /\ dup
    /\ map.tag = "Many" /\ Count(map) = 1

\* C5: in a debug build an insert of a token that is already stored is
\* caught by an assertion (the call panics), in the One and in the Many state.
C5_DuplicateInsertAsserted ==
    [][\A k \in TypeIds, v \in Vals :
        (build = "debug" /\ last' = Call("insert", k, Some(v)) /\ Insert(k, v)
            /\ k \in KeysOf(map)) => panicked']_vars

\* C6: once the option of an OptCell is non-empty it is never overwritten or
\* cleared: no call changes it.
C6_WriteOnce ==
    [][(cell = "OptCell" /\ opt # None) => opt' = opt]_vars

\* C7: new(None) reads None before any set and Some(v) after exactly one
\* set(v); new(Some(x)) reads Some(x); a read returns the stored option and
\* leaves it unchanged.
C7_ReadsAfterSet ==
    /\ [](cell = "OptCell" =>
            /\ (optInit = None /\ optSets = <<>>) => OptCellDeref(opt) = None
            /\ (optInit = None /\ Len(optSets) = 1) =>
                    OptCellDeref(opt) = Some(optSets[1])
            /\ (optInit # None /\ optSets = <<>>) => OptCellDeref(opt) = optInit
            /\ last.op = "deref" => last.res = opt)
    /\ [][(last'.op = "deref" /\ Deref) => opt' = opt]_vars

C7_Witness ==
    /\ cell = "OptCell" /\ optInit = None /\ Len(optSets) = 1
    /\ last.op = "deref" /\ last.res = Some(optSets[1])

\* C8: one() returns the stored value exactly when the cache is One; on
\* Empty and on Many it panics, in the debug and in the release build, and
\* returns nothing.
C8_OnePanicsUnlessSingle ==
    [][(last'.op = "one" /\ OneCall) =>
        IF map.tag = "One"
        THEN ~panicked' /\ last'.res = Some(map.v)
        ELSE panicked' /\ last'.res = None]_vars

C8_Witness ==
    /\ build = "release" /\ panicked
    /\ last.op = "one" /\ map.tag = "Many"

\* C9: into_value(token) returns what get(token) returns on the cache it
\* consumes, in each structural state; afterwards nothing of the cache is
\* left and no call can be made on it.
C9_IntoValueAsGet ==
    /\ [][\A k \in TypeIds :
            (last'.op = "into_value" /\ IntoValue(k)) =>
                /\ last'.res = PtrMapGet(map, k)
                /\ ~dup => last'.res = inserted[k]
                /\ moved' /\ Count(map') = 0]_vars
    /\ [][~moved]_vars

C9_Witness ==
    /\ moved /\ Cardinality(Inserted) >= 2
    /\ last.op = "into_value" /\ last.res # None

\* C10: once the writes have completed, under every interleaving of the
\* readers' get / one / deref calls each read returns what it returns on the
\* contents the writes left, and the contents stay as the writes left them.
C10_ReadersAgree ==
    frozen =>
        /\ map = snap.map
        /\ opt = snap.opt
        /\ \A r \in Readers :
            rpc[r] = "done" =>
                rres[r] = ReadResult(rcall[r], snap.map, snap.opt)

C10_Witness ==
    /\ frozen /\ map.tag = "Many"
    /\ \E r, q \in Readers :
        /\ rpc[r] = "ref"
        /\ rpc[q] = "done" /\ rcall[q].op = "get" /\ rres[q].res # None

\* ================================================================ headers

\* no cell is under test in the header specifications
CellIdle ==
    /\ cell = "none"
    /\ build = "debug"
    /\ opt = None /\ optInit = None /\ optSets = <<>>
    /\ map = Empty /\ inserted = <<>> /\ dup = FALSE /\ moved = FALSE
    /\ panicked = FALSE
    /\ last = Call("none", 0, None)
    /\ frozen = FALSE /\ snap = <<>>
    /\ rpc = <<>> /\ rcall = <<>> /\ rres = <<>>
    /\ ins = None /\ cl = None

\* ---------------------------------------------------------------- strings

\* a byte that is not valid UTF-8
BadByte == "\\xFF"

\* std::str::from_utf8 succeeds
IsUtf8(line) == \A i \in 1..Len(line) : line[i] # BadByte

\* u8::to_ascii_lowercase on the letters A-Z
UpperToLower ==
    ("A" :> "a") @@ ("B" :> "b") @@ ("C" :> "c") @@ ("D" :> "d") @@ ("E" :>
    "e") @@ ("F" :> "f") @@ ("G" :> "g") @@ ("H" :> "h") @@ ("I" :> "i") @@
    ("J" :> "j") @@ ("K" :> "k") @@ ("L" :> "l") @@ ("M" :> "m") @@ ("N" :>
    "n") @@ ("O" :> "o") @@ ("P" :> "p") @@ ("Q" :> "q") @@ ("R" :> "r") @@
    ("S" :> "s") @@ ("T" :> "t") @@ ("U" :> "u") @@ ("V" :> "v") @@ ("W" :>
    "w") @@ ("X" :> "x") @@ ("Y" :> "y") @@ ("Z" :> "z")

ToAsciiLowerChar(c) == IF c \in DOMAIN UpperToLower THEN UpperToLower[c] ELSE c

\* str::to_ascii_lowercase
ToAsciiLowercase(s) == [i \in 1..Len(s) |-> ToAsciiLowerChar(s[i])]

\* char::is_whitespace
IsWhitespace(c) == c = " "

RECURSIVE TrimStart(_)
TrimStart(s) == IF s # <<>> /\ IsWhitespace(Head(s)) THEN TrimStart(Tail(s)) ELSE s

RECURSIVE TrimEnd(_)
TrimEnd(s) ==
    IF s # <<>> /\ IsWhitespace(s[Len(s)])
    THEN TrimEnd(SubSeq(s, 1, Len(s) - 1)) ELSE s

\* str::trim
Trim(s) == TrimEnd(TrimStart(s))

\* the position of the first c in s, 0 when there is none
FirstIndex(s, c) ==
    IF \E i \in 1..Len(s) : s[i] = c
    THEN CHOOSE i \in 1..Len(s) : s[i] = c /\ \A j \in 1..(i - 1) : s[j] # c
    ELSE 0

\* str::split(c): n separators give n + 1 pieces
RECURSIVE Split(_, _)
Split(s, c) ==
    LET i == FirstIndex(s, c) IN
    IF i = 0 THEN <<s>>
    ELSE <<SubSeq(s, 1, i - 1)>> \o Split(SubSeq(s, i + 1, Len(s)), c)

\* str::splitn(2, c): at most two pieces, split at the first c
SplitN2(s, c) ==
    LET i == FirstIndex(s, c) IN
    IF i = 0 THEN <<s>>
    ELSE <<SubSeq(s, 1, i - 1), SubSeq(s, i + 1, Len(s))>>

\* the concatenation of a sequence of strings
RECURSIVE Concat(_)
Concat(ss) == IF ss = <<>> THEN <<>> ELSE Head(ss) \o Concat(Tail(ss))

\* the concatenation with sep between the strings
RECURSIVE Join(_, _)
Join(ss, sep) ==
    IF ss = <<>> THEN <<>>
    ELSE IF Len(ss) = 1 THEN Head(ss)
    ELSE Head(ss) \o sep \o Join(Tail(ss), sep)

\* all sequences over S of length at most n
SeqsUpTo(S, n) == UNION {[1..m -> S] : m \in 0..n}

Min(S) == CHOOSE x \in S : \A y \in S : x <= y

Max(S) == CHOOSE x \in S : \A y \in S : y <= x

\* ::Result
Ok(v) == [ok |-> TRUE, v |-> v]
ErrHeader == [ok |-> FALSE, v |-> "Error::Header"]
ErrUtf8 == [ok |-> FALSE, v |-> "Error::Utf8"]

\* RawLike::one: the line of a raw field that has exactly one line
RawOne(raw) == IF Len(raw) = 1 THEN Some(raw[1]) ELSE None

\* ---------------------------------------------------------------- comma-delimited lists

\* the top-level split of a line on commas: a comma inside a quoted string
\* (where a backslash escapes the next character) does not split
RECURSIVE SplitTopLevel(_, _, _)
SplitTopLevel(s, cur, inq) ==
    IF s = <<>> THEN <<cur>>
    ELSE LET c == Head(s) IN
         IF inq /\ c = "\\" /\ Len(s) >= 2
         THEN SplitTopLevel(Tail(Tail(s)), cur \o <<c, s[2]>>, inq)
         ELSE IF c = "\""
         THEN SplitTopLevel(Tail(s), Append(cur, c), ~inq)
         ELSE IF c = "," /\ ~inq
         THEN <<cur>> \o SplitTopLevel(Tail(s), <<>>, FALSE)
         ELSE SplitTopLevel(Tail(s), Append(cur, c), inq)

\* the trimmed, non-empty items of one line
LineItems(line) ==
    LET trimmed == [i \in 1..Len(SplitTopLevel(line, <<>>, FALSE)) |->
                        Trim(SplitTopLevel(line, <<>>, FALSE)[i])]
    IN SelectSeq(trimmed, LAMBDA x : x # <<>>)

\* parsing::from_comma_delimited for String items: the items of all lines,
\* in order; a line that is not UTF-8 fails the field
FromCommaDelimited(raw) ==
    IF \E i \in 1..Len(raw) : ~IsUtf8(raw[i]) THEN ErrUtf8
    ELSE Ok(Concat([i \in 1..Len(raw) |-> LineItems(raw[i])]))

\* ---------------------------------------------------------------- ReferrerPolicy

\* the match of parse_header: the policy a lowercased token names
ReferrerPolicyMatch(slice) ==
    CASE
         slice = <<"n", "o", "-", "r", "e", "f", "e", "r", "r", "e", "r">>
            -> Some("NoReferrer")
      [] slice = <<"n", "e", "v", "e", "r">>
            -> Some("NoReferrer")
      [] slice = <<"n", "o", "-", "r", "e", "f", "e", "r", "r", "e", "r", "-", "w", "h", "e", "n", "-", "d", "o", "w", "n", "g", "r", "a", "d", "e">>
            -> Some("NoReferrerWhenDowngrade")
      [] slice = <<"d", "e", "f", "a", "u", "l", "t">>
            -> Some("NoReferrerWhenDowngrade")
      [] slice = <<"s", "a", "m", "e", "-", "o", "r", "i", "g", "i", "n">>
            -> Some("SameOrigin")
      [] slice = <<"o", "r", "i", "g", "i", "n">>
            -> Some("Origin")
      [] slice = <<"o", "r", "i", "g", "i", "n", "-", "w", "h", "e", "n", "-", "c", "r", "o", "s", "s", "-", "o", "r", "i", "g", "i", "n">>
            -> Some("OriginWhenCrossOrigin")
      [] slice = <<"s", "t", "r", "i", "c", "t", "-", "o", "r", "i", "g", "i", "n">>
            -> Some("StrictOrigin")
      [] slice = <<"s", "t", "r", "i", "c", "t", "-", "o", "r", "i", "g", "i", "n", "-", "w", "h", "e", "n", "-", "c", "r", "o", "s", "s", "-", "o", "r", "i", "g", "i", "n">>
            -> Some("StrictOriginWhenCrossOrigin")
      [] slice = <<"u", "n", "s", "a", "f", "e", "-", "u", "r", "l">>
            -> Some("UnsafeUrl")
      [] slice = <<"a", "l", "w", "a", "y", "s">>
            -> Some("UnsafeUrl")
      [] OTHER -> None

\* the loop of a parse_header that scans `headers.iter()` without `.rev()`
RECURSIVE ReferrerPolicyScanForward(_, _)
ReferrerPolicyScanForward(headers, i) ==
    IF i = 0 THEN ErrHeader
    ELSE LET j == Len(headers) + 1 - i
             m == ReferrerPolicyMatch(ToAsciiLowercase(headers[j]))
         IN IF m # None THEN Ok(m[1]) ELSE ReferrerPolicyScanForward(headers, i - 1)

\* `for h in headers.iter().rev()`: the tokens from headers[i] down to the first
RECURSIVE ReferrerPolicyScan(_, _)
ReferrerPolicyScan(headers, i) ==
    IF i = 0 THEN ErrHeader
    ELSE LET m == ReferrerPolicyMatch(ToAsciiLowercase(headers[i]))
         IN IF m # None THEN Ok(m[1]) ELSE ReferrerPolicyScan(headers, i - 1)

\* ReferrerPolicy::parse_header
ReferrerPolicyParse(raw) ==
    LET headers == FromCommaDelimited(raw) IN
    IF ~headers.ok THEN headers
    ELSE ReferrerPolicyScan(headers.v, Len(headers.v))

\* Display for ReferrerPolicy, on the one line of fmt_header
ReferrerPolicyFmtHeader(v) ==
    <<CASE
         v = "NoReferrer"
            -> <<"n", "o", "-", "r", "e", "f", "e", "r", "r", "e", "r">>
      [] v = "NoReferrerWhenDowngrade"
            -> <<"n", "o", "-", "r", "e", "f", "e", "r", "r", "e", "r", "-", "w", "h", "e", "n", "-", "d", "o", "w", "n", "g", "r", "a", "d", "e">>
      [] v = "SameOrigin"
            -> <<"s", "a", "m", "e", "-", "o", "r", "i", "g", "i", "n">>
      [] v = "Origin"
            -> <<"o", "r", "i", "g", "i", "n">>
      [] v = "OriginWhenCrossOrigin"
            -> <<"o", "r", "i", "g", "i", "n", "-", "w", "h", "e", "n", "-", "c", "r", "o", "s", "s", "-", "o", "r", "i", "g", "i", "n">>
      [] v = "StrictOrigin"
            -> <<"s", "t", "r", "i", "c", "t", "-", "o", "r", "i", "g", "i", "n">>
      [] v = "StrictOriginWhenCrossOrigin"
            -> <<"s", "t", "r", "i", "c", "t", "-", "o", "r", "i", "g", "i", "n", "-", "w", "h", "e", "n", "-", "c", "r", "o", "s", "s", "-", "o", "r", "i", "g", "i", "n">>
      [] v = "UnsafeUrl"
            -> <<"u", "n", "s", "a", "f", "e", "-", "u", "r", "l">>>>

\* ---------------------------------------------------------------- VecMap

\* a VecMap is the sequence of its <<key, value>> entries, oldest first

\* VecMap::append: one more entry at the end
VecMapAppend(m, k, v) == Append(m, <<k, v>>)

\* the positions of the entries with key k
VecMapFind(m, k) == {i \in 1..Len(m) : m[i][1] = k}

\* VecMap::insert: the value of the first entry with key k is replaced,
\* and without such an entry the pair is added at the end
VecMapInsert(m, k, v) ==
    IF VecMapFind(m, k) # {}
    THEN [m EXCEPT ![Min(VecMapFind(m, k))] = <<k, v>>]
    ELSE Append(m, <<k, v>>)

\* VecMap::remove_all: every entry with key k goes, the rest keep their order
VecMapRemoveAll(m, k) == SelectSeq(m, LAMBDA e : e[1] # k)

\* VecMap::get: the value of the first entry with key k
VecMapGet(m, k) ==
    IF VecMapFind(m, k) = {} THEN None ELSE Some(m[Min(VecMapFind(m, k))][2])

\* ---------------------------------------------------------------- Cookie

\* Cookie::new
CookieNew == <<>>

\* a Cookie::set that leaves out `self.0.remove_all(&key)`
CookieSetKeepsOld(c, key, value) == VecMapAppend(c, key, value)

\* Cookie::set
CookieSet(c, key, value) == VecMapAppend(VecMapRemoveAll(c, key), key, value)

\* Cookie::append
CookieAppend(c, key, value) == VecMapAppend(c, key, value)

\* a Cookie::get that returns the last instance found
CookieGetLast(c, key) ==
    IF VecMapFind(c, key) = {} THEN None ELSE Some(c[Max(VecMapFind(c, key))][2])

\* Cookie::get
CookieGet(c, key) == VecMapGet(c, key)

\* the loop of Display::fmt over the entries after the first
RECURSIVE CookieFmtRest(_)
CookieFmtRest(c) ==
    IF c = <<>> THEN <<>>
    ELSE <<";", " ">> \o Head(c)[1] \o <<"=">> \o Head(c)[2] \o CookieFmtRest(Tail(c))

\* Display::fmt
CookieFmt(c) ==
    IF c = <<>> THEN <<>>
    ELSE Head(c)[1] \o <<"=">> \o Head(c)[2] \o CookieFmtRest(Tail(c))

\* the names and values of the cookies tried
CookieNames == {<<"a">>, <<"b">>}
CookieValues == {<<"1">>, <<"2">>}
MaxEntries == 3
Cookies == SeqsUpTo(CookieNames \X CookieValues, MaxEntries)

\* a call on a Cookie: its arguments, its return value, the Cookie before it
CookieCall(key, value, ret, was) ==
    [key |-> key, value |-> value, ret |-> ret, was |-> was]

InitCookie ==
    /\ hdr = "Cookie"
    /\ stage = "new"
    /\ hval = CookieNew
    /\ wire = <<>>
    /\ hres = <<>>
    /\ other = <<>>
    /\ CellIdle

CallSet(key, value) ==
    /\ hdr = "Cookie"
    /\ Len(CookieSet(hval, key, value)) <= MaxEntries
    /\ hval' = CookieSet(hval, key, value)
    /\ stage' = "set"
    /\ hres' = CookieCall(key, value, None, hval)
    /\ UNCHANGED <<cellVars, hdr, wire, other>>

CallAppend(key, value) ==
    /\ hdr = "Cookie"
    /\ Len(hval) < MaxEntries
    /\ hval' = CookieAppend(hval, key, value)
    /\ stage' = "append"
    /\ hres' = CookieCall(key, value, None, hval)
    /\ UNCHANGED <<cellVars, hdr, wire, other>>

CallGet(key) ==
    /\ hdr = "Cookie"
    /\ stage' = "get"
    /\ hres' = CookieCall(key, <<>>, CookieGet(hval, key), hval)
    /\ UNCHANGED <<cellVars, hdr, hval, wire, other>>

CallFmt ==
    /\ hdr = "Cookie"
    /\ stage' = "fmt"
    /\ hres' = CookieCall(<<>>, <<>>, Some(CookieFmt(hval)), hval)
    /\ UNCHANGED <<cellVars, hdr, hval, wire, other>>

NextCookie ==
    \/ \E key \in CookieNames, value \in CookieValues : CallSet(key, value)
    \/ \E key \in CookieNames, value \in CookieValues : CallAppend(key, value)
    \/ \E key \in CookieNames : CallGet(key)
    \/ CallFmt

SpecCookie == InitCookie /\ [][NextCookie]_vars

\* C14: after set(k, v) the Cookie has exactly one entry named k, get(k)
\* returns v, and the entries of every other name are as they were, in the
\* same order.
C14_SetReplacesAll ==
    (hdr = "Cookie" /\ stage = "set") =>
        LET Others(c) == SelectSeq(c, LAMBDA e : e[1] # hres.key) IN
        /\ Cardinality({i \in 1..Len(hval) : hval[i][1] = hres.key}) = 1
        /\ CookieGet(hval, hres.key) = Some(hres.value)
        /\ Others(hval) = Others(hres.was)

\* set("a", "2") on a=1; b=1; a=1 leaves b=1; a=2
C14_Witness ==
    /\ hdr = "Cookie" /\ stage = "set"
    /\ hres.was = << <<(<<"a">>), (<<"1">>)>>, <<(<<"b">>), (<<"1">>)>>,
                    <<(<<"a">>), (<<"1">>)>> >>
    /\ hval = << <<(<<"b">>), (<<"1">>)>>, <<(<<"a">>), (<<"2">>)>> >>

\* C15: append adds its pair after the entries already there and leaves
\* them as they were; get(k) returns the value of the first entry named k
\* (None without one); formatting lists all entries in insertion order as
\* k=v joined by "; ".
C15_AppendKeepsAll ==
    hdr = "Cookie" =>
        /\ stage = "append" =>
              hval = hres.was \o << <<hres.key, hres.value>> >>
        /\ stage = "get" =>
              IF \E i \in 1..Len(hval) : hval[i][1] = hres.key
              THEN \E i \in 1..Len(hval) :
                      /\ hval[i][1] = hres.key
                      /\ \A j \in 1..(i - 1) : hval[j][1] # hres.key
                      /\ hres.ret = Some(hval[i][2])
              ELSE hres.ret = None
        /\ stage = "fmt" =>
              hres.ret = Some(Join([i \in 1..Len(hval) |->
                                       hval[i][1] \o <<"=">> \o hval[i][2]],
                                   <<";", " ">>))

\* get("a") on a=1; a=2 returns 1
C15_Witness ==
    /\ hdr = "Cookie" /\ stage = "get"
    /\ hval = << <<(<<"a">>), (<<"1">>)>>, <<(<<"a">>), (<<"2">>)>> >>
    /\ hres.key = <<"a">>
    /\ hres.ret = Some(<<"1">>)

\* ---------------------------------------------------------------- Cookie equality

\* PartialEq::eq
CookieEq(self, o) ==
    IF Len(self) = Len(o)
    THEN \A i \in 1..Len(self) : CookieGet(o, self[i][1]) = Some(self[i][2])
    ELSE FALSE

InitCookieEq ==
    /\ hdr = "Cookie=="
    /\ stage = "new"
    /\ hval \in Cookies
    /\ other \in Cookies
    /\ wire = <<>>
    /\ hres = <<>>
    /\ CellIdle

CallEq ==
    /\ hdr = "Cookie=="
    /\ stage = "new"
    /\ stage' = "eq"
    /\ hres' = CookieEq(hval, other)
    /\ UNCHANGED <<cellVars, hdr, hval, wire, other>>

NextCookieEq == CallEq

SpecCookieEq == InitCookieEq /\ [][NextCookieEq]_vars

\* C16: two Cookies holding the same pairs, in whatever order, are equal
\* (two empty ones among them), and two Cookies with different entry
\* counts or with a pair that only one of them holds are not equal.
C16_EqIgnoresOrder ==
    (hdr = "Cookie==" /\ stage = "eq") =>
        LET Times(c, e) == Cardinality({i \in 1..Len(c) : c[i] = e})
            PairSet(c) == {c[i] : i \in 1..Len(c)}
        IN /\ (\A e \in PairSet(hval) \cup PairSet(other) :
                    Times(hval, e) = Times(other, e)) => hres = TRUE
           /\ (Len(hval) # Len(other) \/ PairSet(hval) # PairSet(other))
                    => hres = FALSE

\* ---------------------------------------------------------------- Cookie codec

\* a parse_header that splits a segment at its last '='
RECURSIVE CookieParseSegmentsAtLast(_, _)
CookieParseSegmentsAtLast(vec_map, segs) ==
    IF segs = <<>> THEN vec_map
    ELSE LET seg == Head(segs)
             at == {i \in 1..Len(seg) : seg[i] = "="}
         IN CookieParseSegmentsAtLast(
                IF at # {}
                THEN VecMapInsert(vec_map, Trim(SubSeq(seg, 1, Max(at) - 1)),
                                  Trim(SubSeq(seg, Max(at) + 1, Len(seg))))
                ELSE vec_map,
                Tail(segs))

\* `for cookie_str in cookies_str.split(';')`: the pairs of the segments
\* of one line go into vec_map
RECURSIVE CookieParseSegments(_, _)
CookieParseSegments(vec_map, segs) ==
    IF segs = <<>> THEN vec_map
    ELSE LET key_val == SplitN2(Head(segs), "=")
         IN CookieParseSegments(
                IF Len(key_val) = 2
                THEN VecMapInsert(vec_map, Trim(key_val[1]), Trim(key_val[2]))
                ELSE vec_map,
                Tail(segs))

\* `for cookies_raw in raw.iter()`: a line that is not UTF-8 returns at once
RECURSIVE CookieParseLines(_, _)
CookieParseLines(vec_map, raw) ==
    IF raw = <<>> THEN Ok(vec_map)
    ELSE IF ~IsUtf8(Head(raw)) THEN ErrUtf8
    ELSE CookieParseLines(CookieParseSegments(vec_map, Split(Head(raw), ";")),
                          Tail(raw))

\* Cookie::parse_header
CookieParseHeader(raw) ==
    LET r == CookieParseLines(<<>>, raw) IN
    IF ~r.ok THEN r
    ELSE IF Len(r.v) # 0 THEN Ok(r.v) ELSE ErrHeader

\* Cookie::fmt_header: one line
CookieFmtHeader(c) == <<CookieFmt(c)>>

\* ---------------------------------------------------------------- AccessControlAllowOrigin

\* enum AccessControlAllowOrigin
OriginAny == [tag |-> "Any", s |-> <<>>]
OriginNull == [tag |-> "Null", s |-> <<>>]
OriginValue(s) == [tag |-> "Value", s |-> s]

\* a parse_header whose match has no `b"null"` arm
OriginParseHeaderNoNull(raw) ==
    IF RawOne(raw) = None THEN ErrHeader
    ELSE LET line == RawOne(raw)[1] IN
         IF line = <<"*">> THEN Ok(OriginAny)
         ELSE IF IsUtf8(line) THEN Ok(OriginValue(line)) ELSE ErrUtf8

\* AccessControlAllowOrigin::parse_header
OriginParseHeader(raw) ==
    IF RawOne(raw) = None THEN ErrHeader
    ELSE LET line == RawOne(raw)[1] IN
         IF line = <<"*">> THEN Ok(OriginAny)
         ELSE IF line = <<"n", "u", "l", "l">> THEN Ok(OriginNull)
         ELSE IF IsUtf8(line) THEN Ok(OriginValue(line)) ELSE ErrUtf8

\* Display::fmt
OriginFmt(v) ==
    CASE v.tag = "Any" -> <<"*">>
      [] v.tag = "Null" -> <<"n", "u", "l", "l">>
      [] v.tag = "Value" -> v.s

\* AccessControlAllowOrigin::fmt_header: one line
OriginFmtHeader(v) == <<OriginFmt(v)>>

\* ---------------------------------------------------------------- AccessControlAllowCredentials

\* const ACCESS_CONTROL_ALLOW_CREDENTIALS_TRUE
CredentialsTrue == <<"t", "r", "u", "e">>

\* unicase::eq_ascii: the same length and the same bytes up to ASCII case
EqAscii(left, right) ==
    /\ Len(left) = Len(right)
    /\ \A i \in 1..Len(left) :
          ToAsciiLowerChar(left[i]) = ToAsciiLowerChar(right[i])

\* AccessControlAllowCredentials::parse_header compared case-sensitively
CredentialsParseHeaderExact(raw) ==
    IF RawOne(raw) # None /\ RawOne(raw)[1] = CredentialsTrue
    THEN {Ok("AccessControlAllowCredentials")}
    ELSE {ErrHeader}

\* AccessControlAllowCredentials::parse_header: the line is viewed as a &str
\* by str::from_utf8_unchecked, which does not look at the bytes, and
\* eq_ascii compares it with `true` byte by byte, so a line that is not
\* UTF-8 is compared like any other and differs from `true`
CredentialsParseHeader(raw) ==
    IF RawOne(raw) # None /\ EqAscii(RawOne(raw)[1], CredentialsTrue)
    THEN {Ok("AccessControlAllowCredentials")}
    ELSE {ErrHeader}

\* Display::fmt, on the one line of fmt_header
CredentialsFmtHeader == <<(<<"t", "r", "u", "e">>)>>

\* ---------------------------------------------------------------- quality values
\* the decimal digits and their values
DigitValue ==
    ("0" :> 0) @@ ("1" :> 1) @@ ("2" :> 2) @@ ("3" :> 3) @@ ("4" :> 4)
    @@ ("5" :> 5) @@ ("6" :> 6) @@ ("7" :> 7) @@ ("8" :> 8) @@ ("9" :> 9)

\* the digit of a value below ten
DigitChar(d) == CHOOSE c \in DOMAIN DigitValue : DigitValue[c] = d

\* the quality a decimal denotes, in thousandths: 0 or 1, then at most three
\* fractional digits, and no more than 1 in all
QualityParse(text) ==
    LET dot == FirstIndex(text, ".")
        int == IF dot = 0 THEN text ELSE SubSeq(text, 1, dot - 1)
        frac == IF dot = 0 THEN <<>> ELSE SubSeq(text, dot + 1, Len(text))
        digit(i) == IF i <= Len(frac) THEN DigitValue[frac[i]] ELSE 0
        q == DigitValue[int[1]] * 1000 + digit(1) * 100 + digit(2) * 10 + digit(3)
    IN IF /\ Len(int) = 1 /\ int[1] \in {"0", "1"}
          /\ Len(frac) <= 3
          /\ \A i \in 1..Len(frac) : frac[i] \in DOMAIN DigitValue
          /\ q <= 1000
       THEN Ok(q) ELSE ErrHeader

\* the decimal of a quality below 1000: at most three fractional digits,
\* trailing zeros trimmed
QualityFmt(q) ==
    LET d1 == q \div 100
        d2 == (q \div 10) % 10
        d3 == q % 10
    IN IF q = 0 THEN <<"0">>
       ELSE <<"0", ".">> \o
            (IF d3 # 0 THEN <<DigitChar(d1), DigitChar(d2), DigitChar(d3)>>
             ELSE IF d2 # 0 THEN <<DigitChar(d1), DigitChar(d2)>>
             ELSE <<DigitChar(d1)>>)

\* QualityItem: an item and its quality in thousandths
QualityItem(item, q) == [item |-> item, q |-> q]

\* Display for QualityItem: the item, and `;q=W` unless the quality is 1000
QualityItemFmt(qi) ==
    qi.item \o (IF qi.q = 1000 THEN <<>> ELSE <<";", "q", "=">> \o QualityFmt(qi.q))

\* FromStr for QualityItem: the text before the first ';' is the item, the
\* segments after it are key=value parameters, the first `q` gives the
\* quality, other parameters are ignored, no `q` means 1000
QualityItemParse(text) ==
    LET segs == Split(text, ";")
        item == Trim(segs[1])
        params == [i \in 1..(Len(segs) - 1) |-> SplitN2(Trim(segs[i + 1]), "=")]
        qs == SelectSeq(params, LAMBDA kv : Len(kv) = 2 /\ Trim(kv[1]) = <<"q">>)
    IN IF item = <<>> THEN ErrHeader
       ELSE IF qs = <<>> THEN Ok(QualityItem(item, 1000))
       ELSE IF QualityParse(Trim(qs[1][2])).ok
       THEN Ok(QualityItem(item, QualityParse(Trim(qs[1][2])).v))
       ELSE ErrHeader

\* the values of the results that are Ok, in order: an item that fails to
\* decode fails neither its neighbours nor the list
KeepOk(results) ==
    LET oks == SelectSeq(results, LAMBDA r : r.ok)
    IN [i \in 1..Len(oks) |-> oks[i].v]

\* parsing::fmt_comma_delimited: the items joined by ", "
FmtCommaDelimited(texts) == Join(texts, <<",", " ">>)

\* a parse_header that gives the default quality to an item whose quality
\* does not decode
QualityListParseDefaults(raw) ==
    LET items == FromCommaDelimited(raw)
        Item(text) ==
            IF QualityItemParse(text).ok THEN QualityItemParse(text).v
            ELSE QualityItem(Trim(Split(text, ";")[1]), 1000)
    IN IF ~items.ok THEN items
       ELSE Ok([i \in 1..Len(items.v) |-> Item(items.v[i])])

\* header! (.., ..) => (QualityItem<Encoding>)*: parse_header
QualityListParse(raw) ==
    LET items == FromCommaDelimited(raw) IN
    IF ~items.ok THEN items
    ELSE Ok(KeepOk([i \in 1..Len(items.v) |-> QualityItemParse(items.v[i])]))

\* a fmt_header that writes the quality of every item, 1 for the default
QualityListFmtHeaderAlways(v) ==
    <<FmtCommaDelimited([i \in 1..Len(v) |->
        v[i].item \o <<";", "q", "=">>
        \o (IF v[i].q = 1000 THEN <<"1">> ELSE QualityFmt(v[i].q))])>>

\* header! (.., ..) => (QualityItem<Encoding>)*: fmt_header
QualityListFmtHeader(v) ==
    <<FmtCommaDelimited([i \in 1..Len(v) |-> QualityItemFmt(v[i])])>>

\* ---------------------------------------------------------------- PreferenceApplied
\* FromStr for Preference: name[=value] and its ;-separated parameters; a
\* preference with parameters, or one that is none of the registered
\* ones, is an Extension
PreferenceParse(text) ==
    LET segs == Split(text, ";")
        nv == SplitN2(Trim(segs[1]), "=")
        pair(kv) == <<Trim(kv[1]), IF Len(kv) = 2 THEN Trim(kv[2]) ELSE <<>> >>
        params == [i \in 1..(Len(segs) - 1) |-> pair(SplitN2(segs[i + 1], "="))]
        registered ==
            {<<<<"r", "e", "s", "p", "o", "n", "d", "-", "a", "s", "y", "n", "c">>, <<>> >>,
             <<<<"r", "e", "t", "u", "r", "n">>, <<"m", "i", "n", "i", "m", "a", "l">>>>}
    IN IF pair(nv)[1] = <<>> THEN ErrHeader
       ELSE Ok([ext |-> params # <<>> \/ pair(nv) \notin registered,
                name |-> pair(nv)[1], value |-> pair(nv)[2], params |-> params])

\* Display for Preference
PreferenceFmt(p) ==
    p.name \o (IF p.value = <<>> THEN <<>> ELSE <<"=">> \o p.value)
    \o Concat([i \in 1..Len(p.params) |->
                  <<";", " ">> \o p.params[i][1]
                  \o (IF p.params[i][2] = <<>> THEN <<>>
                      ELSE <<"=">> \o p.params[i][2])])

\* a PreferenceApplied::parse_header without the is_empty test
PreferenceAppliedParseAny(raw) ==
    LET items == FromCommaDelimited(raw) IN
    IF ~items.ok THEN items
    ELSE Ok(KeepOk([i \in 1..Len(items.v) |-> PreferenceParse(items.v[i])]))

\* PreferenceApplied::parse_header
PreferenceAppliedParse(raw) ==
    LET items == FromCommaDelimited(raw)
        preferences == KeepOk([i \in 1..Len(items.v) |-> PreferenceParse(items.v[i])])
    IN IF ~items.ok THEN items
       ELSE IF preferences # <<>> THEN Ok(preferences) ELSE ErrHeader

\* a Display for PreferenceApplied that writes the preferences as they are
PreferenceAppliedFmtHeaderAsIs(v) ==
    <<FmtCommaDelimited([i \in 1..Len(v) |-> PreferenceFmt(v[i])])>>

\* Display for PreferenceApplied, on the one line of fmt_header
PreferenceAppliedFmtHeader(v) ==
    <<FmtCommaDelimited([i \in 1..Len(v) |->
        PreferenceFmt(IF v[i].ext THEN [v[i] EXCEPT !.params = <<>>] ELSE v[i])])>>

\* ---------------------------------------------------------------- Warning

\* str::split_whitespace: the maximal runs of characters that are not
\* whitespace, in order
RECURSIVE SplitWhitespace(_)
SplitWhitespace(s) ==
    LET t == TrimStart(s)
        i == FirstIndex(t, " ")
    IN IF t = <<>> THEN <<>>
       ELSE IF i = 0 THEN <<t>>
       ELSE <<SubSeq(t, 1, i - 1)>> \o SplitWhitespace(SubSeq(t, i + 1, Len(t)))

\* the value of a string of decimal digits
RECURSIVE DecimalValue(_)
DecimalValue(ds) ==
    IF ds = <<>> THEN 0
    ELSE 10 * DecimalValue(SubSeq(ds, 1, Len(ds) - 1)) + DigitValue[ds[Len(ds)]]

\* str::parse::<u16>: an optional `+` and at least one decimal digit, of a
\* value that fits 16 bits
ParseU16(tok) ==
    LET ds == IF tok # <<>> /\ Head(tok) = "+" THEN Tail(tok) ELSE tok IN
    IF ds = <<>> \/ \E i \in 1..Len(ds) : ds[i] \notin DOMAIN DigitValue
    THEN None
    ELSE IF DecimalValue(ds) >= 2^16 THEN None ELSE Some(DecimalValue(ds))

\* the decimal digits of a natural number
RECURSIVE NatToText(_)
NatToText(n) ==
    IF n < 10 THEN <<DigitChar(n)>>
    ELSE Append(NatToText(n \div 10), DigitChar(n % 10))

\* the instants of the dates of the tests, in seconds since 1970, with the
\* three spellings of each that an HTTP date may have
HttpDates ==
    {[t |-> 1345937685, imf |-> <<"S", "a", "t", ",", " ", "2", "5", " ", "A", "u", "g", " ", "2", "0", "1", "2", " ", "2", "3", ":", "3", "4", ":", "4", "5", " ", "G", "M", "T">>,
      rfc850 |-> <<"S", "a", "t", "u", "r", "d", "a", "y", ",", " ", "2", "5", "-", "A", "u", "g", "-", "1", "2", " ", "2", "3", ":", "3", "4", ":", "4", "5", " ", "G", "M", "T">>,
      asctime |-> <<"S", "a", "t", " ", "A", "u", "g", " ", "2", "5", " ", "2", "3", ":", "3", "4", ":", "4", "5", " ", "2", "0", "1", "2">>],
     [t |-> 784887151, imf |-> <<"T", "u", "e", ",", " ", "1", "5", " ", "N", "o", "v", " ", "1", "9", "9", "4", " ", "0", "8", ":", "1", "2", ":", "3", "1", " ", "G", "M", "T">>,
      rfc850 |-> <<"T", "u", "e", "s", "d", "a", "y", ",", " ", "1", "5", "-", "N", "o", "v", "-", "9", "4", " ", "0", "8", ":", "1", "2", ":", "3", "1", " ", "G", "M", "T">>,
      asctime |-> <<"T", "u", "e", " ", "N", "o", "v", " ", "1", "5", " ", "0", "8", ":", "1", "2", ":", "3", "1", " ", "1", "9", "9", "4">>]}

\* str::parse::<HttpDate>: the instant of a date in one of the spellings
HttpDateParse(text) ==
    LET ds == {d \in HttpDates : text \in {d.imf, d.rfc850, d.asctime}} IN
    IF ds = {} THEN ErrHeader ELSE Ok((CHOOSE d \in ds : TRUE).t)

\* Display for HttpDate: the IMF-fixdate spelling
HttpDateFmt(t) == (CHOOSE d \in HttpDates : d.t = t).imf

\* header::parsing::from_raw_str up to the call of from_str: the line as
\* UTF-8 text, trimmed
FromRawStrText(line) ==
    IF IsUtf8(line) THEN Ok(Trim(line)) ELSE ErrUtf8

\* header::parsing::from_one_raw_str up to the call of from_str: the field
\* must have one line and the line must not be empty
FromOneRawStrText(raw) ==
    IF RawOne(raw) = None \/ RawOne(raw)[1] = <<>> THEN ErrHeader
    ELSE FromRawStrText(RawOne(raw)[1])

\* Warning::from_str that reads the date after the second double quote
WarningFromStrDateEarly(s) ==
    LET tokens == SplitWhitespace(s)
        pieces == Split(s, "\"")
    IN IF tokens = <<>> \/ ParseU16(tokens[1]) = None \/ Len(tokens) < 2
          \/ Len(pieces) < 2
       THEN ErrHeader
       ELSE Ok([code |-> ParseU16(tokens[1])[1],
                agent |-> tokens[2],
                text |-> pieces[2],
                date |-> IF Len(pieces) >= 3 /\ HttpDateParse(pieces[3]).ok
                         THEN Some(HttpDateParse(pieces[3]).v) ELSE None])

\* Warning::from_str: the code and the agent are the first two tokens of
\* split_whitespace; split('"').skip(1) gives the text as its first piece
\* and nth(1) then skips one piece and gives the date, which is None when
\* it does not parse
WarningFromStr(s) ==
    LET tokens == SplitWhitespace(s)
        pieces == Split(s, "\"")
    IN IF tokens = <<>> THEN ErrHeader
       ELSE IF ParseU16(tokens[1]) = None THEN ErrHeader
       ELSE IF Len(tokens) < 2 THEN ErrHeader
       ELSE IF Len(pieces) < 2 THEN ErrHeader
       ELSE Ok([code |-> ParseU16(tokens[1])[1],
                agent |-> tokens[2],
                text |-> pieces[2],
                date |-> IF Len(pieces) >= 4 /\ HttpDateParse(pieces[4]).ok
                         THEN Some(HttpDateParse(pieces[4]).v) ELSE None])

\* Warning::parse_header
WarningParseHeader(raw) ==
    LET t == FromOneRawStrText(raw) IN
    IF t.ok THEN WarningFromStr(t.v) ELSE t

\* Display for Warning, on the one line of fmt_header: the code has at
\* least three digits
WarningFmtHeader(v) ==
    LET code == NatToText(v.code)
        pad == [i \in 1..(3 - Len(code)) |-> "0"]
        head == pad \o code \o <<" ">> \o v.agent \o <<" ", "\"">> \o v.text \o <<"\"">>
    IN IF v.date = None THEN <<head>>
       ELSE <<head \o <<" ", "\"">> \o HttpDateFmt(v.date[1]) \o <<"\"">> >>

\* ---------------------------------------------------------------- LastEventId

\* LastEventId::parse_header that unwraps the conversion of the line to text
LastEventIdParseHeaderUnwrap(raw) ==
    IF RawOne(raw) = None THEN ErrHeader
    ELSE IF RawOne(raw)[1] = <<>> THEN Ok(<<>>)
    ELSE IF IsUtf8(RawOne(raw)[1]) THEN Ok(Trim(RawOne(raw)[1]))
    ELSE [ok |-> FALSE, v |-> "panic"]

\* LastEventId::parse_header: an empty line is the empty id
LastEventIdParseHeader(raw) ==
    IF RawOne(raw) = None THEN ErrHeader
    ELSE IF RawOne(raw)[1] = <<>> THEN Ok(<<>>)
    ELSE FromRawStrText(RawOne(raw)[1])

\* Display for LastEventId, on the one line of fmt_header
LastEventIdFmtHeader(v) == <<v>>

\* ---------------------------------------------------------------- header codecs

\* the headers whose parse_header and fmt_header are modelled
Headers ==
    {"ReferrerPolicy", "Cookie", "AccessControlAllowOrigin",
     "AccessControlAllowCredentials", "AcceptEncoding", "Te",
     "PreferenceApplied", "Warning", "LastEventId"}

\* Header::parse_header of the header h: the results it can return
ParseHeaderOf(h, raw) ==
    CASE h = "ReferrerPolicy" -> {ReferrerPolicyParse(raw)}
      [] h = "Cookie" -> {CookieParseHeader(raw)}
      [] h = "AccessControlAllowOrigin" -> {OriginParseHeader(raw)}
      [] h = "AccessControlAllowCredentials" -> CredentialsParseHeader(raw)
      [] h \in {"AcceptEncoding", "Te"} -> {QualityListParse(raw)}
      [] h = "PreferenceApplied" -> {PreferenceAppliedParse(raw)}
      [] h = "Warning" -> {WarningParseHeader(raw)}
      [] h = "LastEventId" -> {LastEventIdParseHeader(raw)}

\* Header::fmt_header of the header h: the raw field of the value v
FmtHeaderOf(h, v) ==
    CASE h = "ReferrerPolicy" -> ReferrerPolicyFmtHeader(v)
      [] h = "Cookie" -> CookieFmtHeader(v)
      [] h = "AccessControlAllowOrigin" -> OriginFmtHeader(v)
      [] h = "AccessControlAllowCredentials" -> CredentialsFmtHeader
      [] h \in {"AcceptEncoding", "Te"} -> QualityListFmtHeader(v)
      [] h = "PreferenceApplied" -> PreferenceAppliedFmtHeader(v)
      [] h = "Warning" -> WarningFmtHeader(v)
      [] h = "LastEventId" -> LastEventIdFmtHeader(v)

MaxPieces == 5
MaxChars == 5
MaxOriginLen == 4
MaxLines == 2
MaxQualityPieces == 4
MaxQualityChars == 4
MaxWarningChars == 3

\* the decimals decoded as a quality: those of the quality precision
\* property, and all texts of at most MaxQualityChars digits and dots
QualityTexts ==
    {<<"0", ".", "5">>, <<"1">>, <<"0", ".", "6", "6", "7">>, <<"0">>,
     <<"1", ".", "5">>, <<"0", ".", "0", "0", "0", "1">>,
     <<"1", ".", "0", "0", "0">>, <<"1", ".", "0", "0", "1">>, <<"0", ".", "9", "9", "9">>}
    \cup SeqsUpTo({"0", "1", "5", "."}, MaxQualityChars)

\* the lines of test_accept_encoding test4, test5 and of test_te test2
QualityTestLines ==
    {<<"c", "o", "m", "p", "r", "e", "s", "s", ";", "q", "=", "0", ".", "5", ",", " ", "g", "z", "i", "p">>,
     <<"g", "z", "i", "p", ",", " ", "i", "d", "e", "n", "t", "i", "t", "y", ";", " ", "q", "=", "0", ".", "5", ",", " ", "*", ";", "q", "=", "0">>,
     <<"t", "r", "a", "i", "l", "e", "r", "s", ",", " ", "d", "e", "f", "l", "a", "t", "e", ";", "q", "=", "0", ".", "5">>}

\* `true` in every mix of cases
TrueVariants ==
    {<<a, b, c, d>> : a \in {"t", "T"}, b \in {"r", "R"},
                      c \in {"u", "U"}, d \in {"e", "E"}}

\* the lines decoded as a Warning: a code, an agent, a quoted text and a
\* quoted date, each of them possibly missing or malformed, with single
\* spaces between those present, and all lines of at most MaxWarningChars
\* digits, letters, spaces, double quotes and bytes that are not UTF-8
WarningLines ==
    LET codes == {<<>>, <<"1", "1", "2">>, <<"2", "9", "9">>, <<"0", "0", "7">>, <<"+", "5">>, <<"7", "0", "0", "0", "0">>, <<"1", "x">>}
        agents == {<<>>, <<"-">>, <<"a", ":", "8">>}
        texts == {<<>>, <<"\"", "a", " ", "b", "\"">>, <<"\"", "\"">>, <<"\"", "a">>}
        dates == {<<>>, <<"\"", "S", "a", "t", ",", " ", "2", "5", " ", "A", "u", "g", " ", "2", "0", "1", "2", " ", "2", "3", ":", "3", "4", ":", "4", "5", " ", "G", "M", "T", "\"">>, <<"\"", "T", "u", "e", " ", "N", "o", "v", " ", "1", "5", " ", "0", "8", ":", "1", "2", ":", "3", "1", " ", "1", "9", "9", "4", "\"">>, <<"\"", "j", "u", "n", "k", "\"">>, <<"\"", "T", "u", "e", ",", " ", "1", "5", " ", "N", "o", "v", " ", "1", "9", "9", "4", " ", "0", "8", ":", "1", "2", ":", "3", "1", " ", "G", "M", "T">>}
        Present(ps) == SelectSeq(ps, LAMBDA x : x # <<>>)
    IN {Join(Present(<<c, a, t, d>>), <<" ">>) :
            c \in codes, a \in agents, t \in texts, d \in dates}
       \cup SeqsUpTo({"1", "a", " ", "\"", BadByte}, MaxWarningChars)

\* the values encoded, and decoded again: Cookies of at most MaxEntries
\* entries, origins of at most MaxOriginLen characters, lists of at most
\* two encodings with a quality, lists of at most two preferences (those of
\* test_format_ignore_parameters among them)
HeaderValues(h) ==
    CASE h = "Cookie" -> Cookies
      [] h = "AccessControlAllowOrigin" ->
            {OriginAny, OriginNull}
            \cup {OriginValue(s) :
                    s \in SeqsUpTo({"*", "n", "u", "l", "h"}, MaxOriginLen)}
      [] h = "AccessControlAllowCredentials" ->
            {"AccessControlAllowCredentials"}
      [] h = "AcceptEncoding" ->
            SeqsUpTo({QualityItem(item, q) :
                        item \in {<<"g", "z", "i", "p">>, <<"*">>},
                        q \in {0, 5, 50, 500, 667, 1000}}, 2)
      [] h = "PreferenceApplied" ->
            LET Pref(ext, name, value, params) ==
                    [ext |-> ext, name |-> name, value |-> value, params |-> params]
                foo == <<"f", "o", "o">>
                bar == <<"b", "a", "r">>
                buz == <<"b", "u", "z">>
            IN SeqsUpTo({Pref(FALSE, <<"r", "e", "s", "p", "o", "n", "d", "-", "a", "s", "y", "n", "c">>, <<>>, <<>>),
                         Pref(FALSE, <<"r", "e", "t", "u", "r", "n">>, <<"m", "i", "n", "i", "m", "a", "l">>, <<>>),
                         Pref(TRUE, foo, bar, <<>>),
                         Pref(TRUE, foo, bar, << <<bar, foo>>, <<buz, <<>> >> >>),
                         Pref(TRUE, buz, <<>>, << <<bar, foo>> >>)}, 2)
      [] h = "Warning" ->
            {[code |-> c, agent |-> a, text |-> t, date |-> d] :
                c \in {7, 112, 299}, a \in {<<"-">>, <<"a", ":", "8">>},
                t \in {<<>>, <<"a", " ", "b">>},
                d \in {None} \cup {Some(x.t) : x \in HttpDates}}
      [] h = "LastEventId" -> SeqsUpTo({"1", "a", " "}, 2)
      [] OTHER -> {}

\* the raw fields decoded. ReferrerPolicy: one line of at most MaxPieces
\* tokens, commas and spaces, or two lines of one. Cookie: one line of at
\* most MaxChars characters, or two short lines. AccessControlAllowCredentials:
\* at most MaxLines lines, each `true` in some case, another word, text that
\* is not ASCII, or bytes that are not UTF-8. AcceptEncoding: one line of at
\* most MaxQualityPieces encodings, qualities, commas and spaces, or
\* `gzip;q=` and a decimal. AccessControlAllowOrigin: lines of at most
\* MaxOriginLen characters. Warning: one of WarningLines. LastEventId: at
\* most MaxLines lines.
HeaderRaws(h) ==
    CASE h = "ReferrerPolicy" ->
            LET pieces ==
                {<<"o", "r", "i", "g", "i", "n">>, <<"O", "R", "I", "G", "I", "N">>,
                 <<"f", "o", "o", "b", "a", "r">>, <<"n", "e", "v", "e", "r">>, <<",">>, <<" ">>}
            IN {<<>>, <<(<<BadByte>>)>>}
               \cup {<<Concat(ps)>> : ps \in SeqsUpTo(pieces, MaxPieces)}
               \cup {<<l1, l2>> : l1, l2 \in pieces \cup {<<BadByte>>}}
      [] h = "Cookie" ->
            LET chars == {"a", "b", "=", ";", " ", BadByte}
            IN {<<>>} \cup {<<l>> : l \in SeqsUpTo(chars, MaxChars)}
               \cup {<<l1, l2>> : l1, l2 \in SeqsUpTo(chars, 2)}
      [] h = "AccessControlAllowCredentials" ->
            SeqsUpTo(TrueVariants
                     \cup {<<>>, <<"f", "a", "l", "s", "e">>, <<"t", "r", "u">>,
                           <<"t", "r", "u", "e", " ">>,
                           <<"t", "r", "u", "\\u0645">>,
                           <<"\\u0645", "\\u0631", "\\u062d", "\\u0628", "\\u0627">>,
                           <<"t", "r", "u", BadByte>>},
                     MaxLines)
      [] h = "AcceptEncoding" ->
            LET pieces ==
                    {<<"g", "z", "i", "p">>, <<"*">>, <<";", "q", "=", "0", ".", "5">>,
                     <<";", " ", "q", "=", "0">>, <<";", "q", "=", "1">>, <<",">>, <<" ">>}
            IN {<<>>, <<(<<>>), (<<>>)>>}
               \cup {<<Concat(ps)>> : ps \in SeqsUpTo(pieces, MaxQualityPieces)}
               \cup {<<l>> : l \in QualityTestLines}
               \cup {<<<<"g", "z", "i", "p", ";", "q", "=">> \o t>> :
                        t \in QualityTexts}
      [] h = "Te" ->
            {<<>>, <<(<<>>)>>, <<<<"t", "r", "a", "i", "l", "e", "r", "s">>>>}
            \cup {<<l>> : l \in QualityTestLines}
      [] h = "PreferenceApplied" ->
            {<<>>, <<(<<>>)>>, <<(<<>>), (<<>>)>>, <<(<<",">>)>>, <<(<<" ", ",", " ">>)>>,
             <<(<<BadByte>>)>>, <<(<<";">>)>>, <<(<<"=">>)>>, <<(<<"a", "=", "\"">>)>>,
             <<(<<"a">>), (<<BadByte>>)>>,
             <<<<"r", "e", "s", "p", "o", "n", "d", "-", "a", "s", "y", "n", "c">>>>,
             <<<<"f", "o", "o", "=", "b", "a", "r">>>>,
             <<<<"r", "e", "s", "p", "o", "n", "d", "-", "a", "s", "y", "n", "c", ",", " ", "f", "o", "o", "=", "b", "a", "r", ";", " ", "b", "a", "z", "=", "1">>>>,
             <<(<<>>), <<"r", "e", "t", "u", "r", "n", "=", "m", "i", "n", "i", "m", "a", "l">>>>}
      [] h = "AccessControlAllowOrigin" ->
            LET lines == SeqsUpTo({"*", "n", "u", "l", BadByte}, MaxOriginLen)
            IN {<<>>} \cup {<<l>> : l \in lines}
               \cup {<<l1, l2>> : l1, l2 \in {<<>>, <<"*">>, <<BadByte>>}}
      [] h = "Warning" ->
            {<<>>} \cup {<<l>> : l \in WarningLines}
            \cup {<<l1, l2>> : l1, l2 \in {<<>>, <<"1", " ", "a", " ", "\"", "\"">>, <<BadByte>>}}
      [] h = "LastEventId" ->
            SeqsUpTo({<<>>, <<"1">>, <<" ", "1", " ">>, <<"a", " ", "b">>, <<" ">>,
                      <<"1", BadByte>>}, MaxLines)
      [] OTHER -> {}

\* either a value to encode and decode again, or a raw field to decode
InitCodec ==
    /\ hdr \in Headers
    /\ \/ /\ stage = "value"
          /\ hval \in {Some(v) : v \in HeaderValues(hdr)}
          /\ wire = <<>>
       \/ /\ stage = "wire"
          /\ hval = None
          /\ wire \in HeaderRaws(hdr)
    /\ hres = <<>>
    /\ other = <<>>
    /\ CellIdle

FmtHeader ==
    /\ stage = "value"
    /\ wire' = FmtHeaderOf(hdr, hval[1])
    /\ stage' = "wire"
    /\ UNCHANGED <<cellVars, hdr, hval, hres, other>>

ParseHeader ==
    /\ stage = "wire"
    /\ hres' \in ParseHeaderOf(hdr, wire)
    /\ stage' = "parsed"
    /\ UNCHANGED <<cellVars, hdr, hval, wire, other>>

\* test_header!: the decoded value is encoded again
FmtParsed ==
    /\ stage = "parsed"
    /\ hres.ok
    /\ other' = FmtHeaderOf(hdr, hres.v)
    /\ stage' = "reencoded"
    /\ UNCHANGED <<cellVars, hdr, hval, wire, hres>>

NextCodec == FmtHeader \/ ParseHeader \/ FmtParsed

SpecCodec == InitCodec /\ [][NextCodec]_vars

\* ---------------------------------------------------------------- claims on the header codecs

\* C11: decoding yields the policy of the rightmost token that is a policy
\* name ignoring ASCII case, whatever unknown tokens surround it, and fails
\* (Error::Header for a field that is text) exactly when no token is one.
C11_RightmostWins ==
    (hdr = "ReferrerPolicy" /\ stage = "parsed") =>
        LET items == FromCommaDelimited(wire)
            Recognized ==
                {i \in 1..Len(items.v) :
                    ReferrerPolicyMatch(ToAsciiLowercase(items.v[i])) # None}
        IN IF items.ok /\ Recognized # {}
           THEN hres = Ok(ReferrerPolicyMatch(
                            ToAsciiLowercase(items.v[Max(Recognized)]))[1])
           ELSE /\ ~hres.ok
                /\ items.ok => hres = ErrHeader

\* "never,ORIGIN,foobar" decodes to Origin
C11_Witness ==
    /\ hdr = "ReferrerPolicy" /\ stage = "parsed"
    /\ wire = <<<<"n", "e", "v", "e", "r">> \o <<",">> \o <<"O", "R", "I", "G", "I", "N">>
                \o <<",">> \o <<"f", "o", "o", "b", "a", "r">>>>
    /\ hres = Ok("Origin")

\* C12: the encoding of every Cookie, the empty one and those with a name
\* used twice included, decodes, and to a Cookie equal to it.
C12_CookieRoundTrip ==
    (hdr = "Cookie" /\ stage = "parsed" /\ hval # None) =>
        /\ hres.ok
        /\ CookieEq(hres.v, hval[1])

\* C13, as stated: decoding the line that encodes v yields v, for Any, Null
\* and Value(s) with any string s.
C13_OriginRoundTrip ==
    (hdr = "AccessControlAllowOrigin" /\ stage = "parsed" /\ hval # None)
        => hres = Ok(hval[1])

\* C13, amended: decoding the line that encodes v yields v, for Any, Null
\* and Value(s) with any string s other than "*" and "null".
C13_OriginRoundTripUnlessKeyword ==
    (/\ hdr = "AccessControlAllowOrigin" /\ stage = "parsed" /\ hval # None
     /\ hval # Some(OriginValue(<<"*">>))
     /\ hval # Some(OriginValue(<<"n", "u", "l", "l">>)))
        => hres = Ok(hval[1])

\* Value("nul*") is encoded as "nul*" and decoded to Value("nul*")
C13_Witness ==
    /\ hdr = "AccessControlAllowOrigin" /\ stage = "parsed"
    /\ hval = Some(OriginValue(<<"n", "u", "l", "*">>))
    /\ wire = <<(<<"n", "u", "l", "*">>)>>
    /\ hres = Ok(hval[1])

\* C17: decoding fails on a line that is not UTF-8 and, on text, exactly
\* when no ';'-segment of any line holds a '='; otherwise every decoded
\* entry is the trimmed name and value around the first '=' of such a
\* segment (the value possibly empty), and the name of every such segment
\* of every line is decoded.
C17_CookieDecodeTolerant ==
    (hdr = "Cookie" /\ stage = "parsed") =>
        LET Segments == Concat([i \in 1..Len(wire) |-> Split(wire[i], ";")])
            PairSegments == SelectSeq(Segments, LAMBDA g : FirstIndex(g, "=") # 0)
            SegmentPair(g) ==
                <<Trim(SubSeq(g, 1, FirstIndex(g, "=") - 1)),
                  Trim(SubSeq(g, FirstIndex(g, "=") + 1, Len(g)))>>
        IN IF \E i \in 1..Len(wire) : ~IsUtf8(wire[i]) THEN ~hres.ok
           ELSE IF PairSegments = <<>> THEN hres = ErrHeader
           ELSE /\ hres.ok
                /\ \A i \in 1..Len(hres.v) :
                       \E j \in 1..Len(PairSegments) :
                           hres.v[i] = SegmentPair(PairSegments[j])
                /\ \A j \in 1..Len(PairSegments) :
                       \E i \in 1..Len(hres.v) :
                           hres.v[i][1] = SegmentPair(PairSegments[j])[1]

\* " a=b=" decodes to the one entry a with value b=
C17_Witness ==
    /\ hdr = "Cookie" /\ stage = "parsed"
    /\ wire = <<(<<" ", "a", "=", "b", "=">>)>>
    /\ hres = Ok(<< <<(<<"a">>), (<<"b", "=">>)>> >>)

\* C18: decoding succeeds exactly when the raw field has one line and the
\* line is `true` up to ASCII case, fails with Error::Header otherwise, and
\* the encoding is always the line `true`.
C18_CredentialsOnlyTrue ==
    hdr = "AccessControlAllowCredentials" =>
        /\ stage = "parsed" =>
              /\ hres.ok <=> (Len(wire) = 1 /\ wire[1] \in TrueVariants)
              /\ ~hres.ok => hres = ErrHeader
        /\ (stage = "wire" /\ hval # None) =>
              wire = <<(<<"t", "r", "u", "e">>)>>

\* a line `True` was decoded to the value
C18_Witness ==
    /\ hdr = "AccessControlAllowCredentials" /\ stage = "parsed"
    /\ wire = <<(<<"T", "r", "u", "e">>)>>
    /\ hres = Ok("AccessControlAllowCredentials")

\* C19: a raw field without any item (no line, or only empty lines)
\* decodes to the empty list for AcceptEncoding and TE, and the empty list
\* is encoded as one empty line; PreferenceApplied decodes no raw field to
\* an empty list and returns Error::Header for a raw field of text without
\* any item.
C19_EmptyListOnlyForZeroOrMore ==
    LET NoItem == \A i \in 1..Len(wire) : \A j \in 1..Len(wire[i]) :
                      wire[i][j] \in {",", " "}
    IN /\ hdr \in {"AcceptEncoding", "Te"} =>
            /\ (stage = "parsed" /\ NoItem) => hres = Ok(<<>>)
            /\ (stage = "reencoded" /\ hres.v = <<>>) => other = <<(<<>>)>>
            /\ (stage = "wire" /\ hval = Some(<<>>)) => wire = <<(<<>>)>>
       /\ (hdr = "PreferenceApplied" /\ stage = "parsed") =>
            /\ hres.ok => hres.v # <<>>
            /\ NoItem => hres = ErrHeader

\* the empty line decodes to the empty AcceptEncoding, which is encoded as
\* the empty line
C19_Witness ==
    /\ hdr = "AcceptEncoding" /\ stage = "reencoded"
    /\ wire = <<(<<>>)>>
    /\ hres = Ok(<<>>)
    /\ other = <<(<<>>)>>

\* C20: an item of quality 1000 is encoded without a `;q=` suffix and an
\* item of a lower quality with one; an item decoded from text without a
\* suffix has quality 1000; the lines `compress;q=0.5, gzip`,
\* `gzip, identity; q=0.5, *;q=0` and `trailers, deflate;q=0.5` are decoded
\* and encoded again to the text they were, up to spaces.
C20_DefaultQualityOmitted ==
    hdr \in {"AcceptEncoding", "Te"} =>
        /\ (stage = "wire" /\ hval # None) =>
              LET texts == LineItems(wire[1]) IN
              /\ Len(texts) = Len(hval[1])
              /\ \A i \in 1..Len(texts) :
                    (FirstIndex(texts[i], ";") = 0) <=> (hval[1][i].q = 1000)
        /\ (stage = "parsed" /\ hres.ok) =>
              \A i \in 1..Len(wire) : \A j \in 1..Len(LineItems(wire[i])) :
                  FirstIndex(LineItems(wire[i])[j], ";") = 0 =>
                      \E k \in 1..Len(hres.v) :
                          hres.v[k] = QualityItem(LineItems(wire[i])[j], 1000)
        /\ (stage = "reencoded" /\ Len(wire) = 1 /\ wire[1] \in QualityTestLines) =>
              LET NoSpace(t) == SelectSeq(t, LAMBDA c : c # " ") IN
              /\ Len(other) = 1
              /\ NoSpace(other[1]) = NoSpace(wire[1])

\* `gzip, identity; q=0.5, *;q=0` is decoded and encoded again as
\* `gzip, identity;q=0.5, *;q=0`
C20_Witness ==
    /\ hdr = "AcceptEncoding" /\ stage = "reencoded"
    /\ wire = <<<<"g", "z", "i", "p", ",", " ", "i", "d", "e", "n", "t", "i", "t", "y", ";", " ", "q", "=", "0", ".", "5", ",", " ", "*", ";", "q", "=", "0">>>>
    /\ hres.v[2] = QualityItem(<<"i", "d", "e", "n", "t", "i", "t", "y">>, 500)
    /\ other = <<<<"g", "z", "i", "p", ",", " ", "i", "d", "e", "n", "t", "i", "t", "y", ";", "q", "=", "0", ".", "5", ",", " ", "*", ";", "q", "=", "0">>>>

\* C25: equality of Cookies is symmetric: for all Cookies a and b, those
\* with a name used twice included, a == b exactly when b == a.
C25_EqSymmetric ==
    (hdr = "Cookie==" /\ stage = "eq") => hres = CookieEq(other, hval)

\* C21: a decimal in [0,1] with at most three fractional digits is decoded
\* to its thousandfold (0.5 to 500, 1 to 1000, 0.667 to 667, 0 to 0); a
\* decimal above 1 (1.5) or with more than three fractional digits (0.0001)
\* is not decoded; no decoded quality is outside 0..1000.
C21_QualityDecode ==
    (/\ hdr = "AcceptEncoding" /\ stage = "parsed"
     /\ Len(wire) = 1 /\ Len(wire[1]) > 7
     /\ SubSeq(wire[1], 1, 7) = <<"g", "z", "i", "p", ";", "q", "=">>
     /\ \A i \in 8..Len(wire[1]) : wire[1][i] \in DOMAIN DigitValue \cup {"."}) =>
        LET t == SubSeq(wire[1], 8, Len(wire[1]))
            IsDigits(x) == x # <<>> /\ \A i \in 1..Len(x) : x[i] \in DOMAIN DigitValue
            dot == FirstIndex(t, ".")
            int == IF dot = 0 THEN t ELSE SubSeq(t, 1, dot - 1)
            frac == IF dot = 0 THEN <<>> ELSE SubSeq(t, dot + 1, Len(t))
            \* a digit, and with a dot one to three more
            WellFormed ==
                /\ IsDigits(int) /\ Len(int) = 1
                /\ dot = 0 \/ (IsDigits(frac) /\ Len(frac) <= 3)
            \* the four digits of t, zeros for the fractional digits left out
            Padded == [i \in 1..4 |-> IF i <= Len(int \o frac)
                                      THEN (int \o frac)[i] ELSE "0"]
            Digits(n) == <<DigitChar(n \div 1000), DigitChar((n \div 100) % 10),
                           DigitChar((n \div 10) % 10), DigitChar(n % 10)>>
        IN /\ WellFormed =>
                \A n \in 0..1000 :
                    Padded = Digits(n) => hres = Ok(<<QualityItem(<<"g", "z", "i", "p">>, n)>>)
           /\ (/\ IsDigits(int) /\ dot # 0 /\ IsDigits(frac)
               /\ \/ Len(frac) > 3
                  \/ Len(int) > 1 /\ \E i \in 1..Len(int) : int[i] # "0"
                  \/ int = <<"1">> /\ \E i \in 1..Len(frac) : frac[i] # "0")
                => hres = Ok(<<>>)
           /\ hres.ok
           /\ \A i \in 1..Len(hres.v) : hres.v[i].q \in 0..1000

\* `gzip;q=0.667` is decoded to gzip with quality 667
C21_Witness ==
    /\ hdr = "AcceptEncoding" /\ stage = "parsed"
    /\ wire = <<<<"g", "z", "i", "p", ";", "q", "=", "0", ".", "6", "6", "7">>>>
    /\ hres = Ok(<<QualityItem(<<"g", "z", "i", "p">>, 667)>>)

\* C22: formatting a PreferenceApplied writes, in list order and joined by
\* ", ", only name=value (the name alone without a value) for every
\* Extension, whatever parameters it has, and every other preference as it
\* is; the value formatted is left as it was.
C22_FormatDropsParameters ==
    [][(hdr = "PreferenceApplied" /\ stage = "value" /\ stage' = "wire") =>
          LET v == hval[1]
              NameValue(p) ==
                  p.name \o (IF p.value = <<>> THEN <<>> ELSE <<"=">> \o p.value)
          IN /\ wire' = <<Join([i \in 1..Len(v) |->
                                  IF v[i].ext THEN NameValue(v[i])
                                  ELSE PreferenceFmt(v[i])], <<",", " ">>)>>
             /\ hval' = hval]_vars

\* respond-async and the Extension foo=bar with the parameters bar=foo and
\* buz are written as `respond-async, foo=bar`
C22_Witness ==
    /\ hdr = "PreferenceApplied" /\ stage = "wire"
    /\ Len(hval) = 1 /\ Len(hval[1]) = 2
    /\ ~hval[1][1].ext
    /\ hval[1][2].ext /\ Len(hval[1][2].params) = 2
    /\ wire = <<<<"r", "e", "s", "p", "o", "n", "d", "-", "a", "s", "y", "n", "c", ",", " ", "f", "o", "o", "=", "b", "a", "r">>>>

\* C24: decoding a Warning line gives the first whitespace-separated token,
\* parsed as an integer, as the code, the second token as the agent, the
\* characters between the first and the second double quote as the text and
\* the HTTP date between the third and the fourth double quote as the date,
\* None when the line has no third double quote; it fails when the code
\* token is missing or is not a number, when there is no second token, and
\* when the line has no double quote.
C24_WarningDecode ==
    (hdr = "Warning" /\ stage = "parsed" /\ Len(wire) = 1
     /\ wire[1] # <<>> /\ IsUtf8(wire[1])) =>
        LET s == wire[1]
            tokens == SplitWhitespace(s)
            Quotes == {i \in 1..Len(s) : s[i] = "\""}
            NthQuote(n) ==
                CHOOSE i \in Quotes : Cardinality({j \in Quotes : j < i}) = n - 1
            Between(a, b) == SubSeq(s, NthQuote(a) + 1, NthQuote(b) - 1)
            nq == Cardinality(Quotes)
            fails == \/ tokens = <<>>
                     \/ ParseU16(tokens[1]) = None
                     \/ Len(tokens) < 2
                     \/ nq = 0
        IN /\ fails => hres = ErrHeader
           /\ ~fails =>
                /\ hres.ok
                /\ hres.v.code = ParseU16(tokens[1])[1]
                /\ hres.v.agent = tokens[2]
                /\ nq >= 2 => hres.v.text = Between(1, 2)
                /\ (nq >= 4 /\ HttpDateParse(Between(3, 4)).ok) =>
                        hres.v.date = Some(HttpDateParse(Between(3, 4)).v)
                /\ nq < 3 => hres.v.date = None

\* the line of test1 was decoded: code 112, agent `-`, a text and a date
C24_Witness ==
    /\ hdr = "Warning" /\ stage = "parsed"
    /\ wire = <<<<"1", "1", "2", " ", "-", " ", "\"", "a", " ", "b", "\"", " ", "\"", "S", "a", "t", ",", " ", "2", "5", " ", "A", "u", "g", " ", "2", "0", "1", "2", " ", "2", "3", ":", "3", "4", ":", "4", "5", " ", "G", "M", "T", "\"">>>>
    /\ hres = Ok([code |-> 112, agent |-> <<"-">>, text |-> <<"a", " ", "b">>,
                  date |-> Some(1345937685)])

\* C23: decoding never panics: for every raw field, of any number of lines
\* and of any bytes, parse_header of Cookie, ReferrerPolicy,
\* AccessControlAllowOrigin, AccessControlAllowCredentials, LastEventId,
\* PreferenceApplied and Warning returns a value or a typed error.
C23_DecodeTotal ==
    LET IsResult(r) == r.ok \/ r \in {ErrHeader, ErrUtf8} IN
    hdr \in {"Cookie", "ReferrerPolicy", "AccessControlAllowOrigin",
             "AccessControlAllowCredentials", "LastEventId",
             "PreferenceApplied", "Warning"} =>
        /\ (stage = "wire" /\ hval = None) =>
              /\ ParseHeaderOf(hdr, wire) # {}
              /\ \A r \in ParseHeaderOf(hdr, wire) : IsResult(r)
        /\ stage = "parsed" => IsResult(hres)

\* a LastEventId line that is not UTF-8 was decoded to the typed error
C23_Witness ==
    /\ hdr = "LastEventId" /\ stage = "parsed"
    /\ wire = <<(<<"1", BadByte>>)>>
    /\ hres = ErrUtf8

\* ---------------------------------------------------------------- the steps of insert

\* `mem::replace(map, PtrMap::Empty)` that leaves the entry in the cell
PtrMapReplaceKeeps(m) == [map |-> m, old |-> m]

\* `mem::replace(map, PtrMap::Empty)`: the cell holds Empty and the caller
\* holds what the cell held
PtrMapReplace(m) == [map |-> Empty, old |-> m]

\* insert up to its first store to the cell. On Empty and on Many that store
\* is the only one and the call ends; on One it is the mem::replace, and the
\* entry taken out is held by the call until the Many is stored.
InsertStart(key, val) ==
    /\ OnMap
    /\ ins = None
    /\ IF map.tag = "One"
       THEN LET r == PtrMapReplace(map) IN
            /\ map' = r.map
            /\ ins' = Some([key |-> key, val |-> val, one |-> r.old])
            /\ last' = Call("replace", key, Some(val))
            /\ UNCHANGED <<inserted, dup, panicked>>
       ELSE LET r == PtrMapInsert(map, key, val, build) IN
            /\ map' = r.map
            /\ panicked' = r.panic
            /\ inserted' = [inserted EXCEPT ![key] = Some(val)]
            /\ dup' = (dup \/ inserted[key] # None)
            /\ last' = Call("insert", key, Some(val))
            /\ ins' = ins
    /\ UNCHANGED <<hdrVars, cl, cell, build, optVars, moved, readerVars>>

\* the rest of insert on One: debug_assert_ne!(id, key), the HashMap of the
\* two entries, and `*map = PtrMap::Many(hm)`
InsertEnd ==
    /\ OnMap
    /\ ins # None
    /\ LET i == ins[1]
           r == PtrMapInsert(i.one, i.key, i.val, build)
       IN /\ map' = r.map
          /\ panicked' = r.panic
          /\ inserted' = [inserted EXCEPT ![i.key] = Some(i.val)]
          /\ dup' = (dup \/ inserted[i.key] # None)
          /\ last' = Call("insert", i.key, Some(i.val))
    /\ ins' = None
    /\ UNCHANGED <<hdrVars, cl, cell, build, optVars, moved, readerVars>>

\* a PtrMapCell on which get is called between the stores of insert
InitInsertSteps == Init /\ cell = "PtrMapCell"

NextInsertSteps ==
    \/ \E k \in TypeIds, v \in Vals : InsertStart(k, v)
    \/ InsertEnd
    \/ \E k \in TypeIds : Get(k)

SpecInsertSteps == InitInsertSteps /\ [][NextInsertSteps]_vars

\* C26: insert is atomic with respect to readers: whenever get is called for
\* a token whose insert has completed, also between the stores of an insert
\* that promotes One to Many, it returns the value stored for the token.
C26_InsertAtomic ==
    (last.op = "get" /\ inserted[last.key] # None) =>
        last.res = inserted[last.key]

\* C26 as amended: get returns the value stored for the token when no insert
\* is between its stores, and None for every token while one is.
C26_GetOutsideInsert ==
    last.op = "get" =>
        last.res = (IF ins = None THEN inserted[last.key] ELSE None)

\* get was called for the token of the One entry after the mem::replace of
\* an insert and before its Many was stored, and returned None
C26_Witness ==
    /\ ins # None
    /\ last.op = "get"
    /\ last.key = ins[1].one.id
    /\ inserted[last.key] = Some(ins[1].one.v)
    /\ last.res = None

\* ---------------------------------------------------------------- Clone

\* Clone for PtrMapCell that returns the new cell without the assignment
PtrMapCellCloneNew(m) == Empty

\* Clone for PtrMapCell: a new cell that is assigned the derived clone of
\* the PtrMap, which clones every Box
PtrMapCellClone(m) ==
    CASE m.tag = "Empty" -> Empty
      [] m.tag = "One" -> One(m.id, m.v)
      [] m.tag = "Many" -> Many([k \in DOMAIN m.hm |-> m.hm[k]])

\* Clone for OptCell: OptCell::new of the clone of the Option
OptCellClone(o) == IF o = None THEN None ELSE Some(o[1])

CloneCell ==
    /\ Running /\ ~moved
    /\ cl = None
    /\ cl' = Some([map |-> PtrMapCellClone(map), opt |-> OptCellClone(opt), writes |-> 0])
    /\ last' = Call("clone", 0, None)
    /\ UNCHANGED <<hdrVars, ins, cell, build, optVars, mapVars, panicked, readerVars>>

\* insert on the clone
CloneInsert(key, val) ==
    /\ OnMap
    /\ cl # None
    /\ cl[1].writes < MaxCloneWrites
    /\ LET r == PtrMapInsert(cl[1].map, key, val, build) IN
        /\ cl' = Some([cl[1] EXCEPT !.map = r.map, !.writes = @ + 1])
        /\ panicked' = r.panic
    /\ last' = Call("clone.insert", 0, None)
    /\ UNCHANGED <<hdrVars, ins, cell, build, optVars, mapVars, readerVars>>

\* set on the clone
CloneSet(val) ==
    /\ OnOpt
    /\ cl # None
    /\ cl[1].writes < MaxCloneWrites
    /\ LET r == OptCellSet(cl[1].opt, val, build) IN
        /\ cl' = Some([cl[1] EXCEPT !.opt = r.opt, !.writes = @ + 1])
        /\ panicked' = r.panic
    /\ last' = Call("clone.set", 0, None)
    /\ UNCHANGED <<hdrVars, ins, cell, build, optVars, mapVars, readerVars>>

\* the original is given at most MaxCloneEntries entries, each TypeId once,
\* and at most MaxCloneWrites inserts and sets are made on the clone
NextClone ==
    \/ \E v \in Vals : Set(v)
    \/ \E k \in TypeIds, v \in Vals :
            /\ inserted[k] = None
            /\ Count(map) < MaxCloneEntries
            /\ Insert(k, v)
    \/ CloneCell
    \/ \E k \in TypeIds, v \in Vals : CloneInsert(k, v)
    \/ \E v \in Vals : CloneSet(v)

SpecClone == Init /\ [][NextClone]_vars

\* C27: a clone has the structural state of the original, returns the same
\* get result for every token and holds the same option; an insert or a set
\* on the clone leaves what the original returns as it was, and an insert or
\* a set on the original leaves the clone as it was.
C27_CloneIndependent ==
    [][/\ last'.op = "clone" =>
            /\ cl'[1].map.tag = map.tag
            /\ \A k \in TypeIds : PtrMapGet(cl'[1].map, k) = PtrMapGet(map, k)
            /\ OptCellDeref(cl'[1].opt) = OptCellDeref(opt)
            /\ map' = map /\ opt' = opt
       /\ last'.op \in {"clone.insert", "clone.set"} =>
            /\ map'.tag = map.tag
            /\ \A k \in TypeIds : PtrMapGet(map', k) = PtrMapGet(map, k)
            /\ OptCellDeref(opt') = OptCellDeref(opt)
       /\ (cl # None /\ last'.op \in {"insert", "set"}) =>
            cl' = cl]_vars

\* a clone was made of a One cell, a second entry was inserted into the
\* clone and the original still is the One cell
C27_Witness ==
    /\ cl # None
    /\ map.tag = "One"
    /\ cl[1].map.tag = "Many"
    /\ PtrMapGet(cl[1].map, map.id) = Some(map.v)
    /\ last.op = "clone.insert"

====
